---- MODULE Spec2Model ----
(***************************************************************************)
(* pymelcloudhome: the MELCloud Home client (pymelcloudhome/client.py) and *)
(* the authentication service (pymelcloudhome/services/authentication.py) *)
(* as a state machine.  Callers are asyncio tasks on one event loop: a     *)
(* task runs from one await to the next without interruption, so every    *)
(* action below is the code between two suspension points.                *)
(***************************************************************************)
EXTENDS Integers, FiniteSets, Sequences, TLC

\* ---------------------------------------------------------------- bounds
\* Spec: one caller awaits the operations one after the other
MaxOps == 3
MaxTime == 6
\* SpecConc: NumTasks callers share the client on one event loop
NumTasks == 2
ConcOps == 2
ConcTime == 1
\* SpecDevices: the profiles list_devices walks
MaxBuildings == 2
MaxUnits == 2
MaxLists == 2
\* SpecState: the settings lists a device carries
MaxSettings == 3
\* SpecCookies: the cookies the browser hands over
MaxCookies == 3
\* SpecClose: the operations awaited before the client is let go of
CloseOps == 2
CloseTime == 1

\* ------------------------------------------------------------- constants
\* Python's None for the Optional fields (_user_profile, _last_updated).
None == -1
\* timedelta(minutes=5) of list_devices / get_device_state; time is in minutes.
CACHE_MINUTES == 5
\* LOGIN_TIMEOUT_MILLISECONDS of config.py, the timeout of the wait for the dashboard
LOGIN_TIMEOUT_MILLISECONDS == 30000
\* a navigation that completes before the timeout does so after this many ms
EarlyMs == 1000
\* A request that ends in a transport-level failure has no status.
NoStatus == 0

Tasks == 1..NumTasks
Statuses == {200, 400, 401, 403, 404, 500}
Responses == Statuses \cup {NoStatus}
\* the device ids a caller may pass: UnknownId is the id of no device of the account
UnknownId == "none"
DeviceIds == {"d1", UnknownId}
DeviceTypes == {"", "ataunit", "atwunit"}
Emails == {"", "a@x"}
Passwords == {"", "pw"}
NoneStr == "<None>"
Urls == {"https://www.melcloudhome.com/dashboard", "https://www.melcloudhome.com/bff/login"}
BrowserCookies == [name : {NoneStr, "sid"}, value : {NoneStr, "v"}]
NoArg == [id |-> "", type |-> ""]
NoOutcome == [kind |-> "none", status |-> None]
Ok == [kind |-> "ok", status |-> None]
UnitIds == {"d1", "d2"}
\* a Device as parsed from the wire: device_type is absent there and defaults to None
WireDevices == [id : UnitIds, device_type : {NoneStr}]
\* the lists of at most n distinct devices
UnitLists(n) ==
    {u \in UNION {[1..k -> WireDevices] : k \in 0..n} :
        \A i, j \in 1..Len(u) : u[i].id = u[j].id => i = j}
Buildings == [air_to_air_units : UnitLists(MaxUnits),
              air_to_water_units : UnitLists(MaxUnits)]
Profiles == UNION {[1..k -> Buildings] : k \in 0..MaxBuildings}
SettingNames == {"Power", "SetTemperature"}
SettingValues == {"True", "False"}
Settings == [name : SettingNames, value : SettingValues]
SettingLists == UNION {[1..k -> Settings] : k \in 0..MaxSettings}
EmptyState == [n \in {} |-> ""]
\* the cookies a browser hands over: name and value may be missing (None), the
\* domain is always there
CookieDomains == {"melcloudhome.com", "auth.melcloudhome.com"}
DomainCookies == [name : {NoneStr, "sid"}, value : {NoneStr, "a", "b"},
                  domain : CookieDomains]
CookieLists == UNION {[1..k -> DomainCookies] : k \in 0..MaxCookies}
EmptyJar == [k \in {} |-> ""]
\* the jar of a session before a login: empty, or holding a cookie of an earlier login
StartJars == {EmptyJar, [k \in {<<"melcloudhome.com", "sid">>} |-> "old"]}
\* config.DEFAULT_HEADERS
DEFAULT_USER_AGENT == "Mozilla/5.0"
DEFAULT_HEADERS ==
    [n \in {"x-csrf", "user-agent"} |-> IF n = "x-csrf" THEN "1" ELSE DEFAULT_USER_AGENT]
\* the headers a caller may pass: any of these names, each with one of these values
HeaderNames == {"x-csrf", "user-agent", "Authorization", "accept"}
HeaderValues == {"Bearer token", "0"}
NoHeaders == [n \in {} |-> ""]
CallerHeaders == UNION {[names -> HeaderValues] : names \in SUBSET HeaderNames}
\* login has not been called
NoCreds == [email |-> NoneStr, password |-> NoneStr]

VARIABLES
    now,            \* datetime.now(), in minutes
    srv,            \* version of the device data held by the server
    user_profile,   \* MelCloudHomeClient._user_profile: None or the version fetched
    last_updated,   \* MelCloudHomeClient._last_updated: None or a time
    cookie_jar,     \* names of the cookies in session.cookie_jar
    email,          \* AuthenticationService._email ("" stands for None: both falsy)
    password,       \* AuthenticationService._password
    browsers,       \* number of browser instances launched and not yet closed
    pc,             \* per task: where its coroutine is suspended
    op,             \* per task: the public operation it runs
    arg,            \* per task: device id and device type of set_device_state
    body,           \* per task: the data version carried by the response being read
    outcome,        \* per task: how the operation ended (kind of exception, status)
    ret,            \* per task: what the operation returned (snapshot listed, state body)
    nfetch,         \* per task: context fetch requests sent by the operation
    nput,           \* per task: PUT / state GET requests sent by the operation
    launched,       \* per task: browsers launched by the operation
    first,          \* per task: answer to the operation's first context fetch
    credsAtFirst,   \* per task: can_retry_login() when that answer arrived
    dirty,          \* per task: the operation changed _user_profile or _last_updated
    validAtStart,   \* per task: snapshot stored, not invalidated, younger than the TTL at call
    invAtStart,     \* per task: a write returned successfully on the snapshot held at call
    lastAtStart,    \* per task: lastList at call
    fetchFailed,    \* per task: the operation's latest context fetch failed
    writeOk,        \* a write returned successfully since the snapshot was stored
    fetches,        \* context fetch requests sent by all operations
    invalidated,    \* a write succeeded since the snapshot was stored
    tagged,         \* the cached snapshot's Device objects carry a device_type
    lastList,       \* snapshot of the last successful list_devices since the last store
    started,        \* operations started so far
    callers,        \* the tasks the application runs
    budget,         \* how many operations the application starts
    horizon,        \* how long the application runs
    snapshot,       \* the buildings of the cached UserProfile, with their Device objects
    listed,         \* the list the latest list_devices returned
    calls,          \* how many times the devices were listed
    settings,       \* Device.settings of the device whose state is read
    device_state,   \* the mapping extract_state produced
    extracted,      \* whether extract_state ran
    login_args,     \* the arguments of the latest AuthenticationService.login call
    reached,        \* per task: the URL the page was at when the login's wait ended
    message,        \* per task: the URL the raised error's message names
    wait_ms,        \* per task: how long the login's wait for the dashboard lasted
    jarAtStart,     \* per task: cookie_jar at call
    answer,         \* per task: how the operation's latest request was answered
    caller_headers, \* the headers argument of a request
    sent_headers,   \* the headers the request was sent with
    requested,      \* whether the request was made
    browser_cookies, \* the list page.cookies() / context.cookies() answered
    jar,            \* session.cookie_jar: the value stored per (domain, name)
    updates,        \* calls of cookie_jar.update_cookies
    transferred,    \* whether the cookie transfer ran
    managed_session, \* MelCloudHomeClient._managed_session
    session_closed, \* whether the aiohttp session was closed
    exited          \* how the application let go of the client: "no", "close" (a call
                    \* of close()), "normal" / "exception" (it left "async with")

vars == <<now, srv, user_profile, last_updated, cookie_jar, email, password,
          browsers, pc, op, arg, body, outcome, ret, nfetch, nput, launched,
          first, credsAtFirst, dirty, validAtStart, invAtStart, invalidated,
          tagged, lastList, started, callers, budget, horizon, lastAtStart,
          fetchFailed, writeOk, fetches, snapshot, listed, calls, settings,
          device_state, extracted, login_args, reached, message, wait_ms, jarAtStart,
          browser_cookies, jar, updates, transferred, managed_session,
          session_closed, exited, answer, caller_headers, sent_headers, requested>>

cache == <<user_profile, last_updated, tagged, invalidated, lastList, writeOk>>
counters == <<nfetch, nput, launched, fetches>>
auth == <<email, password, login_args>>
env == <<now, srv>>
browser == <<cookie_jar, browsers>>
atStart == <<validAtStart, invAtStart, lastAtStart, jarAtStart>>
waited == <<reached, message, wait_ms>>
ghost == <<first, credsAtFirst, atStart, waited, answer>>
cookies == <<browser_cookies, jar, updates, transferred>>
headers == <<caller_headers, sent_headers, requested>>
data == <<snapshot, listed, calls, settings, device_state, extracted, cookies, headers>>
session == <<managed_session, session_closed, exited>>
app == <<started, callers, budget, horizon, data, session>>

\* ------------------------------------------------------------ pure parts

\* AuthenticationService.can_retry_login: bool(self._email and self._password)
can_retry_login_email_only == email # ""
can_retry_login == email # "" /\ password # ""

\* ApiClient.is_session_expired(status)
is_session_expired(status) == status = 401

\* ClientResponse.raise_for_status raises unless the status is below 400
raise_for_status_mut(status) == status >= 500
raise_for_status(status) == status >= 400

\* list_devices / get_device_state: the condition under which they fetch
\*   not self._user_profile or (self._last_updated and now - _last_updated > 5 min)
needs_fetch_no_ttl(p, lu, t) == p = None \/ (lu # None /\ t - lu >= 0)
needs_fetch_inverted(p, lu, t) == p = None \/ (lu # None /\ t - lu < CACHE_MINUTES)
needs_fetch(p, lu, t) == p = None \/ (lu # None /\ t - lu > CACHE_MINUTES)

\* _wait_for_successful_login: "/dashboard" in current_url
on_dashboard(url) == url = "https://www.melcloudhome.com/dashboard"

\* login, lines 65-72 / _transfer_cookies_to_session: the cookies that are installed
installable(c) == c.name # NoneStr /\ c.value # NoneStr

\* the staleness check as its callers use it
is_cache_valid == ~needs_fetch(user_profile, last_updated, now)

Constructed ==
    /\ now = 0
    /\ srv = 1
    /\ user_profile = None
    /\ last_updated = None
    /\ cookie_jar = {}
    /\ email = ""
    /\ password = ""
    /\ login_args = NoCreds
    /\ browsers = 0
    /\ pc = [t \in Tasks |-> "idle"]
    /\ op = [t \in Tasks |-> "none"]
    /\ arg = [t \in Tasks |-> NoArg]
    /\ body = [t \in Tasks |-> None]
    /\ outcome = [t \in Tasks |-> NoOutcome]
    /\ ret = [t \in Tasks |-> None]
    /\ nfetch = [t \in Tasks |-> 0]
    /\ nput = [t \in Tasks |-> 0]
    /\ launched = [t \in Tasks |-> 0]
    /\ first = [t \in Tasks |-> None]
    /\ credsAtFirst = [t \in Tasks |-> FALSE]
    /\ dirty = [t \in Tasks |-> FALSE]
    /\ validAtStart = [t \in Tasks |-> FALSE]
    /\ invAtStart = [t \in Tasks |-> FALSE]
    /\ lastAtStart = [t \in Tasks |-> None]
    /\ jarAtStart = [t \in Tasks |-> {}]
    /\ reached = [t \in Tasks |-> NoneStr]
    /\ message = [t \in Tasks |-> NoneStr]
    /\ wait_ms = [t \in Tasks |-> None]
    /\ answer = [t \in Tasks |-> None]
    /\ fetchFailed = [t \in Tasks |-> FALSE]
    /\ writeOk = FALSE
    /\ fetches = 0
    /\ invalidated = FALSE
    /\ tagged = FALSE
    /\ lastList = None
    /\ started = 0
    /\ session_closed = FALSE
    /\ exited = "no"

\* no request under study
NoRequest ==
    /\ caller_headers = NoHeaders
    /\ sent_headers = NoHeaders
    /\ requested = FALSE

\* no cookie list under study
NoTransfer ==
    /\ browser_cookies = <<>>
    /\ jar = EmptyJar
    /\ updates = 0
    /\ transferred = FALSE

\* no profile content and no device under study
NoData ==
    /\ snapshot = <<>>
    /\ listed = <<>>
    /\ calls = 0
    /\ settings = <<>>
    /\ device_state = EmptyState
    /\ extracted = FALSE
    /\ NoTransfer
    /\ NoRequest

Init ==
    /\ Constructed
    /\ NoData
    /\ callers = {1}
    /\ budget = MaxOps
    /\ horizon = MaxTime
    /\ managed_session = TRUE

InitConc ==
    /\ Constructed
    /\ NoData
    /\ callers = Tasks
    /\ budget = ConcOps
    /\ horizon = ConcTime
    /\ managed_session = TRUE

\* no caller runs an operation: only the pure parts are applied
NoCallers ==
    /\ callers = {}
    /\ budget = 0
    /\ horizon = 0
    /\ managed_session = TRUE

client == <<now, srv, user_profile, last_updated, cookie_jar, email, password, login_args,
            browsers, pc, op, arg, body, outcome, ret, nfetch, nput, launched,
            first, credsAtFirst, dirty, validAtStart, invAtStart, invalidated,
            tagged, lastList, started, callers, budget, horizon, lastAtStart,
            fetchFailed, writeOk, fetches, reached, message, wait_ms, jarAtStart, session,
            answer>>

\* ---------------------------------------------------- list_devices, the walk

\* list_devices, lines 107 / 110: unit.device_type = ty, on every unit of a list
tag_units(units, ty) ==
    [i \in 1..Len(units) |-> [units[i] EXCEPT !.device_type = ty]]

\* list_devices, lines 103-112: the devices appended, building after building
RECURSIVE extract_devices_atw_first(_)
extract_devices_atw_first(buildings) ==
    IF buildings = <<>>
    THEN <<>>
    ELSE tag_units(Head(buildings).air_to_water_units, "atwunit")
         \o tag_units(Head(buildings).air_to_air_units, "ataunit")
         \o extract_devices_atw_first(Tail(buildings))
RECURSIVE extract_devices(_)
extract_devices(buildings) ==
    IF buildings = <<>>
    THEN <<>>
    ELSE tag_units(Head(buildings).air_to_air_units, "ataunit")
         \o tag_units(Head(buildings).air_to_water_units, "atwunit")
         \o extract_devices(Tail(buildings))

\* the units of the profile after the walk: the loop assigns to the Device objects
\* the profile holds, and appends those same objects
tag_buildings(buildings) ==
    [i \in 1..Len(buildings) |->
        [air_to_air_units |-> tag_units(buildings[i].air_to_air_units, "ataunit"),
         air_to_water_units |-> tag_units(buildings[i].air_to_water_units, "atwunit")]]

InitDevices ==
    /\ Constructed
    /\ NoCallers
    /\ snapshot \in Profiles
    /\ listed = <<>>
    /\ calls = 0
    /\ settings = <<>>
    /\ device_state = EmptyState
    /\ extracted = FALSE
    /\ NoTransfer
    /\ NoRequest

\* list_devices, lines 103-112, on a cached profile
ExtractDevices ==
    /\ calls < MaxLists
    /\ calls' = calls + 1
    /\ listed' = extract_devices(snapshot)
    /\ snapshot' = tag_buildings(snapshot)
    /\ UNCHANGED <<client, settings, device_state, extracted, cookies, headers>>

NextDevices == ExtractDevices

SpecDevices == InitDevices /\ [][NextDevices]_vars

\* ------------------------------------------------- DeviceService.extract_state

\* dict assignment: state[name] = value
set_item_keep_first(mapping, k, v) ==
    [n \in DOMAIN mapping \cup {k} |-> IF n \in DOMAIN mapping THEN mapping[n] ELSE v]
set_item(mapping, k, v) ==
    [n \in DOMAIN mapping \cup {k} |-> IF n = k THEN v ELSE mapping[n]]

\* the settings list projected into a mapping, one assignment per setting in order
RECURSIVE extract_from(_, _)
extract_from(rest, acc) ==
    IF rest = <<>>
    THEN acc
    ELSE extract_from(Tail(rest), set_item(acc, Head(rest).name, Head(rest).value))

extract_device_state(device_settings) == extract_from(device_settings, EmptyState)

InitState ==
    /\ Constructed
    /\ NoCallers
    /\ snapshot = <<>>
    /\ listed = <<>>
    /\ calls = 0
    /\ settings \in SettingLists
    /\ device_state = EmptyState
    /\ extracted = FALSE
    /\ NoTransfer
    /\ NoRequest

ExtractState ==
    /\ ~extracted
    /\ extracted' = TRUE
    /\ device_state' = extract_device_state(settings)
    /\ UNCHANGED <<client, snapshot, listed, calls, settings, cookies, headers>>

NextState == ExtractState

SpecState == InitState /\ [][NextState]_vars

\* --------------------------------------------------- the headers of a request

\* ApiClient.make_request: the default headers, overridden by the caller's
merge_headers_defaults_win(defaults, given) ==
    [n \in DOMAIN defaults \cup DOMAIN given |->
        IF n \in DOMAIN defaults THEN defaults[n] ELSE given[n]]
merge_headers(defaults, given) ==
    [n \in DOMAIN defaults \cup DOMAIN given |->
        IF n \in DOMAIN given THEN given[n] ELSE defaults[n]]

InitHeaders ==
    /\ Constructed
    /\ NoCallers
    /\ snapshot = <<>>
    /\ listed = <<>>
    /\ calls = 0
    /\ settings = <<>>
    /\ device_state = EmptyState
    /\ extracted = FALSE
    /\ NoTransfer
    /\ caller_headers \in CallerHeaders
    /\ sent_headers = NoHeaders
    /\ requested = FALSE

\* make_request(method, path, headers=caller_headers): the request goes out
MakeRequest ==
    /\ ~requested
    /\ requested' = TRUE
    /\ sent_headers' = merge_headers(DEFAULT_HEADERS, caller_headers)
    /\ UNCHANGED <<client, snapshot, listed, calls, settings, device_state, extracted,
                   cookies, caller_headers>>

NextHeaders == MakeRequest

SpecHeaders == InitHeaders /\ [][NextHeaders]_vars

\* ------------------------------------------------------ the cookie transfer

\* cookie_jar.update_cookies({name: value}, response_url=URL(f"https://{domain}")):
\* the value is stored under the cookie's name for that host
update_cookies(j, c) ==
    [k \in DOMAIN j \cup {<<c.domain, c.name>>} |->
        IF k = <<c.domain, c.name>> THEN c.value ELSE j[k]]

\* the loop of login, lines 65-72 / _transfer_cookies_to_session, lines 155-167:
\* one update per cookie that has a name and a value, in list order
RECURSIVE transfer_unfiltered(_, _)
transfer_unfiltered(rest, acc) ==
    IF rest = <<>>
    THEN acc
    ELSE transfer_unfiltered(Tail(rest),
             IF Head(rest).name # NoneStr
             THEN [jar |-> update_cookies(acc.jar, Head(rest)), updates |-> acc.updates + 1]
             ELSE acc)
RECURSIVE transfer_cookies(_, _)
transfer_cookies(rest, acc) ==
    IF rest = <<>>
    THEN acc
    ELSE transfer_cookies(Tail(rest),
             IF installable(Head(rest))
             THEN [jar |-> update_cookies(acc.jar, Head(rest)), updates |-> acc.updates + 1]
             ELSE acc)

InitCookies ==
    /\ Constructed
    /\ NoCallers
    /\ snapshot = <<>>
    /\ listed = <<>>
    /\ calls = 0
    /\ settings = <<>>
    /\ device_state = EmptyState
    /\ extracted = FALSE
    /\ NoRequest
    /\ browser_cookies \in CookieLists
    /\ jar \in StartJars
    /\ updates = 0
    /\ transferred = FALSE

\* _transfer_cookies_to_session on the list the browser answered
TransferCookies ==
    /\ ~transferred
    /\ transferred' = TRUE
    /\ LET r == transfer_cookies(browser_cookies, [jar |-> jar, updates |-> updates])
       IN jar' = r.jar /\ updates' = r.updates
    /\ UNCHANGED <<client, snapshot, listed, calls, settings, device_state, extracted,
                   browser_cookies, headers>>

NextCookies == TransferCookies

SpecCookies == InitCookies /\ [][NextCookies]_vars

Upd(f, t, v) == [f EXCEPT ![t] = v]
Raised(kind, status) == [kind |-> kind, status |-> status]

\* A caller awaits a public coroutine: it runs at once up to its first suspension.
Begin(t, name, a) ==
    /\ t \in callers
    /\ pc[t] \in {"idle", "done"}
    /\ started < budget
    /\ exited \in {"no", "close"}
    /\ ~session_closed
    /\ started' = started + 1
    /\ UNCHANGED <<callers, budget, horizon, data, session>>
    /\ op' = Upd(op, t, name)
    /\ arg' = Upd(arg, t, a)
    /\ body' = Upd(body, t, None)
    /\ dirty' = Upd(dirty, t, FALSE)
    /\ fetchFailed' = Upd(fetchFailed, t, FALSE)
    /\ launched' = Upd(launched, t, 0)
    /\ first' = Upd(first, t, None)
    /\ credsAtFirst' = Upd(credsAtFirst, t, FALSE)
    /\ validAtStart' = Upd(validAtStart, t,
           /\ user_profile # None
           /\ ~invalidated
           /\ last_updated # None
           /\ now - last_updated < CACHE_MINUTES)
    /\ invAtStart' = Upd(invAtStart, t, user_profile # None /\ writeOk)
    /\ lastAtStart' = Upd(lastAtStart, t, lastList)
    /\ jarAtStart' = Upd(jarAtStart, t, cookie_jar)
    /\ reached' = Upd(reached, t, NoneStr)
    /\ message' = Upd(message, t, NoneStr)
    /\ wait_ms' = Upd(wait_ms, t, None)
    /\ answer' = Upd(answer, t, None)

\* the requests an operation has sent when it first suspends
Requests(t, fetched, put) ==
    /\ nfetch' = Upd(nfetch, t, fetched)
    /\ nput' = Upd(nput, t, put)
    /\ fetches' = fetches + fetched

\* The operation returns normally / an exception leaves it.
Return(t, oc) ==
    /\ pc' = Upd(pc, t, "done")
    /\ outcome' = Upd(outcome, t, oc)

\* the coroutine suspends at its next await
Await(t, at) ==
    /\ pc' = Upd(pc, t, at)
    /\ UNCHANGED outcome

\* time passes
Tick ==
    /\ now < horizon
    /\ now' = now + 1
    /\ UNCHANGED <<srv, cache, browser, auth, pc, op, arg, body, outcome, ret,
                   counters, ghost, dirty, fetchFailed, app>>

\* ------------------------------------------------- MelCloudHomeClient reads

\* _fetch_context, line 90: one more GET of user/context is sent and awaited
SendFetch(t) ==
    /\ pc' = Upd(pc, t, "fetch_await")
    /\ nfetch' = Upd(nfetch, t, nfetch[t] + 1)
    /\ fetches' = fetches + 1

\* An exception raised in _fetch_context (lines 90-92): neither _fetch_context nor
\* its callers catch it, so it leaves the public operation.
FetchRaise_retry(t, oc) ==
    /\ SendFetch(t)
    /\ UNCHANGED outcome
FetchRaise_swallow(t, oc) ==
    /\ Return(t, Ok)
    /\ UNCHANGED <<nfetch, fetches>>
FetchRaise(t, oc) ==
    /\ Return(t, oc)
    /\ UNCHANGED <<nfetch, fetches>>

\* list_devices, lines 95-112
ListDevices(t) ==
    /\ Begin(t, "list_devices", NoArg)
    /\ IF needs_fetch(user_profile, last_updated, now)
       THEN /\ pc' = Upd(pc, t, "fetch_await")
            /\ outcome' = Upd(outcome, t, NoOutcome)
            /\ Requests(t, 1, 0)
            /\ ret' = Upd(ret, t, None)
            /\ UNCHANGED <<tagged, lastList>>
       ELSE /\ Return(t, Ok)
            /\ Requests(t, 0, 0)
            /\ ret' = Upd(ret, t, user_profile)
            /\ tagged' = TRUE
            /\ lastList' = user_profile
    /\ UNCHANGED <<env, user_profile, last_updated, invalidated, writeOk, browser, auth>>

\* get_device_state, lines 114-126: up to the first request it sends
GetDeviceState(t) ==
    /\ \E id \in DeviceIds : Begin(t, "get_device_state", [id |-> id, type |-> ""])
    /\ IF needs_fetch(user_profile, last_updated, now)
       THEN pc' = Upd(pc, t, "fetch_await") /\ Requests(t, 1, 0)
       ELSE pc' = Upd(pc, t, "state_await") /\ Requests(t, 0, 1)
    /\ outcome' = Upd(outcome, t, NoOutcome)
    /\ ret' = Upd(ret, t, None)
    /\ UNCHANGED <<env, cache, browser, auth>>

\* _fetch_context, lines 90-91: the response to the GET arrives
FetchResponse(t) ==
    /\ pc[t] = "fetch_await"
    /\ \E r \in Responses :
        /\ answer' = Upd(answer, t, r)
        /\ first' = IF first[t] = None THEN Upd(first, t, r) ELSE first
        /\ credsAtFirst' = IF first[t] = None
                           THEN Upd(credsAtFirst, t, can_retry_login)
                           ELSE credsAtFirst
        /\ IF r = NoStatus
           THEN /\ FetchRaise(t, Raised("ClientError", None))
                /\ fetchFailed' = Upd(fetchFailed, t, TRUE)
                /\ UNCHANGED body
           ELSE IF raise_for_status(r)
           THEN /\ FetchRaise(t, Raised("ClientResponseError", r))
                /\ fetchFailed' = Upd(fetchFailed, t, TRUE)
                /\ UNCHANGED body
           ELSE /\ Await(t, "fetch_json")
                /\ body' = Upd(body, t, srv)
                /\ fetchFailed' = Upd(fetchFailed, t, FALSE)
                /\ UNCHANGED <<nfetch, fetches>>
    /\ UNCHANGED <<env, cache, browser, auth, op, arg, ret, nput, launched, dirty,
                   atStart, waited, app>>

\* _fetch_context, line 92: json() or model_validate raised, before the assignment
\* to _user_profile is made: the cache is as it was
ValidateRaises_reset ==
    /\ user_profile' = None
    /\ last_updated' = None
    /\ UNCHANGED <<tagged, invalidated, lastList, writeOk>>
ValidateRaises ==
    UNCHANGED cache

\* _fetch_context, lines 92-93: the two assignments, with no await between them
StoreProfile_unstamped(t) ==
    /\ user_profile' = body[t]
    /\ UNCHANGED last_updated
    /\ invalidated' = FALSE
    /\ writeOk' = FALSE
StoreProfile(t) ==
    /\ user_profile' = body[t]
    /\ last_updated' = now
    /\ invalidated' = FALSE
    /\ writeOk' = FALSE

\* _fetch_context, lines 92-93: the body is read, decoded and validated, the profile
\* and its timestamp are stored; then the caller runs on to its next await
FetchJson(t) ==
    /\ pc[t] = "fetch_json"
    /\ \E decodes \in BOOLEAN :
        IF ~decodes
        THEN /\ FetchRaise(t, Raised("DecodeError", None))
             /\ fetchFailed' = Upd(fetchFailed, t, TRUE)
             /\ ValidateRaises
             /\ UNCHANGED <<ret, nput, dirty>>
        ELSE /\ StoreProfile(t)
             /\ dirty' = Upd(dirty, t, TRUE)
             /\ IF op[t] = "list_devices"
                THEN /\ Return(t, Ok)
                     /\ ret' = Upd(ret, t, body[t])
                     /\ tagged' = TRUE
                     /\ lastList' = body[t]
                     /\ UNCHANGED nput
                ELSE IF op[t] = "get_device_state"
                THEN /\ Await(t, "state_await")
                     /\ nput' = Upd(nput, t, nput[t] + 1)
                     /\ tagged' = FALSE
                     /\ lastList' = None
                     /\ UNCHANGED ret
                ELSE /\ Return(t, Ok)
                     /\ tagged' = FALSE
                     /\ lastList' = None
                     /\ UNCHANGED <<ret, nput>>
             /\ UNCHANGED <<nfetch, fetches, fetchFailed>>
    /\ UNCHANGED <<env, browser, auth, op, arg, body, launched, ghost, app>>

\* get_device_state, lines 126-127: the response to GET device/{id}/state
StateResponse(t) ==
    /\ pc[t] = "state_await"
    /\ \E r \in Responses :
        /\ answer' = Upd(answer, t, r)
        /\ IF r = NoStatus
           THEN Return(t, Raised("ClientError", None))
           ELSE IF raise_for_status(r)
           THEN Return(t, Raised("ClientResponseError", r))
           ELSE Await(t, "state_json")
    /\ UNCHANGED <<env, cache, browser, auth, op, arg, body, ret, counters, first,
                   credsAtFirst, atStart, waited, dirty, fetchFailed, app>>

\* get_device_state, line 128: the body is read and decoded, and returned as it is
StateJson(t) ==
    /\ pc[t] = "state_json"
    /\ \E decodes \in BOOLEAN :
        IF decodes
        THEN Return(t, Ok) /\ ret' = Upd(ret, t, srv)
        ELSE Return(t, Raised("DecodeError", None)) /\ UNCHANGED ret
    /\ UNCHANGED <<env, cache, browser, auth, op, arg, body, counters, ghost,
                   dirty, fetchFailed, app>>

\* ------------------------------------------------ MelCloudHomeClient writes

\* set_device_state, lines 130-156: the check of device_type, then the PUT is sent
SetDeviceState(t) ==
    /\ \E id \in DeviceIds, ty \in DeviceTypes :
        /\ Begin(t, "set_device_state", [id |-> id, type |-> ty])
        /\ IF ty = ""
           THEN Return(t, Raised("ValueError", None)) /\ Requests(t, 0, 0)
           ELSE /\ pc' = Upd(pc, t, "put_await")
                /\ outcome' = Upd(outcome, t, NoOutcome)
                /\ Requests(t, 0, 1)
    /\ ret' = Upd(ret, t, None)
    /\ UNCHANGED <<env, cache, browser, auth>>

\* set_device_state, lines 154-159: the response to the PUT arrives; on a status
\* below 400 the server has applied the change and _last_updated is cleared
PutResponse_discard(t) ==
    /\ pc[t] = "put_await"
    /\ \E r \in Responses :
        /\ answer' = Upd(answer, t, r)
        /\ IF r = NoStatus
           THEN /\ Return(t, Raised("ClientError", None))
                /\ UNCHANGED <<srv, last_updated, invalidated, dirty>>
           ELSE IF raise_for_status(r)
           THEN /\ Return(t, Raised("ClientResponseError", r))
                /\ UNCHANGED <<srv, last_updated, invalidated, dirty>>
           ELSE /\ Await(t, "put_json")
                /\ srv' = srv + 1
                /\ last_updated' = None
                /\ invalidated' = TRUE
                /\ dirty' = Upd(dirty, t, dirty[t] \/ last_updated # None)
    /\ user_profile' = IF pc'[t] = "put_json" THEN None ELSE user_profile
    /\ UNCHANGED <<now, tagged, lastList, writeOk, browser, auth, op,
                   arg, body, ret, counters, first, credsAtFirst,
                   atStart, waited, fetchFailed, app>>
PutResponse(t) ==
    /\ pc[t] = "put_await"
    /\ \E r \in Responses :
        /\ answer' = Upd(answer, t, r)
        /\ IF r = NoStatus
           THEN /\ Return(t, Raised("ClientError", None))
                /\ UNCHANGED <<srv, last_updated, invalidated, dirty>>
           ELSE IF raise_for_status(r)
           THEN /\ Return(t, Raised("ClientResponseError", r))
                /\ UNCHANGED <<srv, last_updated, invalidated, dirty>>
           ELSE /\ Await(t, "put_json")
                /\ srv' = srv + 1
                /\ last_updated' = None
                /\ invalidated' = TRUE
                /\ dirty' = Upd(dirty, t, dirty[t] \/ last_updated # None)
    /\ UNCHANGED <<now, user_profile, tagged, lastList, writeOk, browser, auth, op,
                   arg, body, ret, counters, first, credsAtFirst,
                   atStart, waited, fetchFailed, app>>

\* set_device_state, line 160: the body of the answer is read and decoded
PutJson(t) ==
    /\ pc[t] = "put_json"
    /\ \E decodes \in BOOLEAN :
        IF decodes
        THEN Return(t, Ok) /\ writeOk' = TRUE
        ELSE Return(t, Raised("DecodeError", None)) /\ UNCHANGED writeOk
    /\ UNCHANGED <<env, user_profile, last_updated, tagged, invalidated, lastList,
                   browser, auth, op, arg, body, ret, counters, ghost, dirty,
                   fetchFailed, app>>

\* ------------------------------------------------- MelCloudHomeClient.login

\* login, lines 37-40: playwright is started and the browser launch is awaited
Login(t) ==
    /\ Begin(t, "login", NoArg)
    /\ pc' = Upd(pc, t, "l_launch")
    /\ outcome' = Upd(outcome, t, NoOutcome)
    /\ Requests(t, 0, 0)
    /\ ret' = Upd(ret, t, None)
    /\ UNCHANGED <<env, cache, browser, auth>>

\* login, line 40: chromium.launch() returns a browser or raises
LoginLaunch(t) ==
    /\ pc[t] = "l_launch"
    /\ \E works \in BOOLEAN :
        IF works
        THEN /\ Await(t, "l_form")
             /\ browsers' = browsers + 1
             /\ launched' = Upd(launched, t, launched[t] + 1)
        ELSE /\ Return(t, Raised("BrowserError", None))
             /\ UNCHANGED <<browsers, launched>>
    /\ UNCHANGED <<env, cache, cookie_jar, auth, op, arg, body, ret, nfetch, nput,
                   fetches, ghost, dirty, fetchFailed, app>>

\* login, lines 41-55: context, page, goto, fill, fill, click.  An exception leaves
\* the "async with async_playwright()" block of line 39, whose exit stops the driver
\* and with it the browser it launched.
LoginForm(t) ==
    /\ pc[t] = "l_form"
    /\ \E works \in BOOLEAN :
        IF works
        THEN Await(t, "l_wait") /\ UNCHANGED browsers
        ELSE Return(t, Raised("BrowserError", None)) /\ browsers' = browsers - 1
    /\ UNCHANGED <<env, cache, cookie_jar, auth, op, arg, body, ret, counters, ghost,
                   dirty, fetchFailed, app>>

\* login, lines 57-62: wait_for_url("**/dashboard", timeout=30000) returns once the
\* URL matches, or raises with the page elsewhere; the ConnectionError raised then
\* carries the text of that exception
LoginWait(t) ==
    /\ pc[t] = "l_wait"
    /\ \E url \in Urls :
        /\ reached' = Upd(reached, t, url)
        /\ IF on_dashboard(url)
           THEN /\ Await(t, "l_cookies")
                /\ wait_ms' = Upd(wait_ms, t, EarlyMs)
                /\ UNCHANGED browsers
           ELSE /\ Return(t, Raised("ConnectionError", None))
                /\ wait_ms' = Upd(wait_ms, t, LOGIN_TIMEOUT_MILLISECONDS)
                /\ browsers' = browsers - 1
    /\ UNCHANGED <<env, cache, cookie_jar, auth, op, arg, body, ret, counters, first,
                   credsAtFirst, atStart, message, answer, dirty, fetchFailed, app>>

\* login, lines 64-74: context.cookies() answers, the cookies with a name and a
\* value are put into the jar, browser.close() is awaited
LoginCookies(t) ==
    /\ pc[t] = "l_cookies"
    /\ \E cs \in SUBSET BrowserCookies :
        cookie_jar' = cookie_jar \cup {c.name : c \in {x \in cs : installable(x)}}
    /\ Await(t, "l_close")
    /\ UNCHANGED <<env, cache, browsers, auth, op, arg, body, ret, counters, ghost,
                   dirty, fetchFailed, app>>

\* login, lines 74-75: the browser is closed, then _fetch_context sends its GET
LoginClose_open(t) ==
    /\ pc[t] = "l_close"
    /\ SendFetch(t)
    /\ UNCHANGED <<env, cache, browser, auth, op, arg, body, outcome, ret, nput,
                   launched, ghost, dirty, fetchFailed, app>>
LoginClose(t) ==
    /\ pc[t] = "l_close"
    /\ browsers' = browsers - 1
    /\ SendFetch(t)
    /\ UNCHANGED <<env, cache, cookie_jar, auth, op, arg, body, outcome, ret, nput,
                   launched, ghost, dirty, fetchFailed, app>>

\* ---------------------------------------------------- AuthenticationService

\* login, lines 45-59, and _perform_browser_login to line 90: the credentials are
\* stored, then the browser launch is awaited
AuthBegin_unstored(t, name, e, p) ==
    /\ Begin(t, name, NoArg)
    /\ login_args' = [email |-> e, password |-> p]
    /\ pc' = Upd(pc, t, "a_launch")
    /\ outcome' = Upd(outcome, t, NoOutcome)
    /\ Requests(t, 0, 0)
    /\ ret' = Upd(ret, t, None)
    /\ UNCHANGED <<env, cache, browser, email, password>>
AuthBegin(t, name, e, p) ==
    /\ Begin(t, name, NoArg)
    /\ email' = e
    /\ password' = p
    /\ login_args' = [email |-> e, password |-> p]
    /\ pc' = Upd(pc, t, "a_launch")
    /\ outcome' = Upd(outcome, t, NoOutcome)
    /\ Requests(t, 0, 0)
    /\ ret' = Upd(ret, t, None)
    /\ UNCHANGED <<env, cache, browser>>

AuthLogin(t) ==
    \E e \in Emails, p \in Passwords : AuthBegin(t, "auth_login", e, p)

\* retry_login, lines 65-71
AuthRetryLogin_unchecked(t) == AuthBegin(t, "auth_retry_login", email, password)
AuthRetryLogin(t) ==
    IF can_retry_login
    THEN AuthBegin(t, "auth_retry_login", email, password)
    ELSE /\ Begin(t, "auth_retry_login", NoArg)
         /\ Return(t, Raised("LoginError", None))
         /\ Requests(t, 0, 0)
         /\ ret' = Upd(ret, t, None)
         /\ UNCHANGED <<env, cache, browser, auth>>

\* _perform_browser_login, line 90: launch() returns a browser or raises (before try)
AuthLaunch(t) ==
    /\ pc[t] = "a_launch"
    /\ \E works \in BOOLEAN :
        IF works
        THEN /\ Await(t, "a_nav")
             /\ browsers' = browsers + 1
             /\ launched' = Upd(launched, t, launched[t] + 1)
        ELSE /\ Return(t, Raised("BrowserError", None))
             /\ UNCHANGED <<browsers, launched>>
    /\ UNCHANGED <<env, cache, cookie_jar, auth, op, arg, body, ret, nfetch, nput,
                   fetches, ghost, dirty, fetchFailed, app>>

\* a step inside the try block (lines 92-99) that either completes, leading to the
\* next step, or raises, leading to the finally block with the exception pending
AuthStep(t, at, next) ==
    /\ pc[t] = at
    /\ \E works \in BOOLEAN :
        IF works
        THEN Await(t, next)
        ELSE /\ pc' = Upd(pc, t, "a_close")
             /\ outcome' = Upd(outcome, t, Raised("BrowserError", None))
    /\ UNCHANGED <<env, cache, browser, auth, op, arg, body, ret, counters, ghost,
                   dirty, fetchFailed, app>>

\* lines 92-95: newPage, setUserAgent, _navigate_to_login_page
AuthNavigate(t) == AuthStep(t, "a_nav", "a_fill")
\* lines 96, 108-116: _fill_login_form
AuthFill(t) == AuthStep(t, "a_fill", "a_submit")
\* lines 97, 118-122: _submit_login_form
AuthSubmit(t) == AuthStep(t, "a_submit", "a_wait")

\* _wait_for_successful_login, lines 124-150: waitForNavigation ends (completed or
\* timed out, its exception is swallowed), then the URL decides; the LoginError
\* raised names the URL
AuthWait_unchecked(t) ==
    /\ pc[t] = "a_wait"
    /\ \E url \in Urls : reached' = Upd(reached, t, url)
    /\ wait_ms' = Upd(wait_ms, t, EarlyMs)
    /\ Await(t, "a_cookies")
    /\ UNCHANGED <<env, cache, browser, auth, op, arg, body, ret, counters, first,
                   credsAtFirst, atStart, message, answer, dirty, fetchFailed, app>>
AuthWait_forever(t) ==
    /\ pc[t] = "a_wait"
    /\ UNCHANGED vars
AuthWait(t) ==
    /\ pc[t] = "a_wait"
    /\ \E navigated \in BOOLEAN, url \in Urls :
        /\ reached' = Upd(reached, t, url)
        /\ wait_ms' = Upd(wait_ms, t, IF navigated THEN EarlyMs
                                      ELSE LOGIN_TIMEOUT_MILLISECONDS)
        /\ IF on_dashboard(url)
           THEN Await(t, "a_cookies") /\ UNCHANGED message
           ELSE /\ pc' = Upd(pc, t, "a_close")
                /\ outcome' = Upd(outcome, t, Raised("LoginError", None))
                /\ message' = Upd(message, t, url)
    /\ UNCHANGED <<env, cache, browser, auth, op, arg, body, ret, counters, first,
                   credsAtFirst, atStart, answer, dirty, fetchFailed, app>>

\* _transfer_cookies_to_session, lines 152-167: page.cookies() answers or raises
AuthCookies(t) ==
    /\ pc[t] = "a_cookies"
    /\ pc' = Upd(pc, t, "a_close")
    /\ \E works \in BOOLEAN :
        IF works
        THEN /\ \E cs \in SUBSET BrowserCookies :
                  cookie_jar' = cookie_jar \cup
                                {c.name : c \in {x \in cs : installable(x)}}
             /\ outcome' = Upd(outcome, t, Ok)
        ELSE /\ outcome' = Upd(outcome, t, Raised("BrowserError", None))
             /\ UNCHANGED cookie_jar
    /\ UNCHANGED <<env, cache, browsers, auth, op, arg, body, ret, counters, ghost,
                   dirty, fetchFailed, app>>

\* _perform_browser_login, lines 101-102: finally: await browser.close(); a close
\* that raises replaces the pending outcome
AuthClose(t) ==
    /\ pc[t] = "a_close"
    /\ \E closes \in BOOLEAN :
        IF closes
        THEN /\ browsers' = browsers - 1
             /\ pc' = Upd(pc, t, "done")
             /\ UNCHANGED outcome
        ELSE /\ Return(t, Raised("CloseError", None))
             /\ UNCHANGED browsers
    /\ UNCHANGED <<env, cache, cookie_jar, auth, op, arg, body, ret, counters, ghost,
                   dirty, fetchFailed, app>>

\* ------------------------------------------------------ cancellation of a login

\* the positions of _perform_browser_login inside its try block (lines 92-99)
AuthTryPcs == {"a_nav", "a_fill", "a_submit", "a_wait", "a_cookies"}
\* the positions of MelCloudHomeClient.login inside "async with async_playwright()"
\* at which the browser of line 40 is open
LoginOpenPcs == {"l_form", "l_wait", "l_cookies", "l_close"}

\* The caller cancels the task that awaits AuthenticationService.login or
\* retry_login: CancelledError is raised at the await the coroutine is suspended in.
\*   line 90 (before the try): the launch is abandoned, the browser process it may
\*     already have started is referenced by nobody;
\*   lines 92-99 (in the try): the finally block runs and awaits browser.close();
\*   line 102 (in the finally): the pending browser.close() is abandoned, completed
\*     or not.
AuthCancel(t) ==
    /\ pc[t] \in {"a_launch", "a_close"} \cup AuthTryPcs
    /\ IF pc[t] = "a_launch"
       THEN /\ Return(t, Raised("CancelledError", None))
            /\ \E spawned \in BOOLEAN :
                 IF spawned
                 THEN /\ browsers' = browsers + 1
                      /\ launched' = Upd(launched, t, launched[t] + 1)
                 ELSE UNCHANGED <<browsers, launched>>
       ELSE IF pc[t] \in AuthTryPcs
       THEN /\ pc' = Upd(pc, t, "a_close")
            /\ outcome' = Upd(outcome, t, Raised("CancelledError", None))
            /\ UNCHANGED <<browsers, launched>>
       ELSE /\ Return(t, Raised("CancelledError", None))
            /\ \E closed \in BOOLEAN :
                 browsers' = IF closed THEN browsers - 1 ELSE browsers
            /\ UNCHANGED launched
    /\ UNCHANGED <<env, cache, cookie_jar, auth, op, arg, body, ret, nfetch, nput,
                   fetches, ghost, dirty, fetchFailed, app>>

\* The caller cancels the task that awaits MelCloudHomeClient.login in its browser
\* part (lines 39-74): CancelledError leaves the "async with async_playwright()"
\* block, whose exit stops the driver and with it the browser it launched.
LoginCancel(t) ==
    /\ pc[t] \in {"l_launch"} \cup LoginOpenPcs
    /\ Return(t, Raised("CancelledError", None))
    /\ browsers' = IF pc[t] \in LoginOpenPcs THEN browsers - 1 ELSE browsers
    /\ UNCHANGED <<env, cache, cookie_jar, auth, op, arg, body, ret, counters, ghost,
                   dirty, fetchFailed, app>>

Next ==
    \/ Tick
    \/ \E t \in Tasks :
        \/ ListDevices(t)
        \/ GetDeviceState(t)
        \/ SetDeviceState(t)
        \/ FetchResponse(t)
        \/ FetchJson(t)
        \/ StateResponse(t)
        \/ StateJson(t)
        \/ PutResponse(t)
        \/ PutJson(t)
        \/ Login(t)
        \/ LoginLaunch(t)
        \/ LoginForm(t)
        \/ LoginWait(t)
        \/ LoginCookies(t)
        \/ LoginClose(t)
        \/ AuthLogin(t)
        \/ AuthRetryLogin(t)
        \/ AuthLaunch(t)
        \/ AuthNavigate(t)
        \/ AuthFill(t)
        \/ AuthSubmit(t)
        \/ AuthWait(t)
        \/ AuthCookies(t)
        \/ AuthClose(t)
        \/ AuthCancel(t)
        \/ LoginCancel(t)

\* ------------------------------------------- close and the async context

\* close, lines 162-165: the session is closed if the client created it
close_session_always(managed, closed) == TRUE
close_session(managed, closed) == IF managed THEN TRUE ELSE closed

\* the application is between two operations
Idle == \A t \in callers : pc[t] \in {"idle", "done"}

\* the application calls close()
Close ==
    /\ Idle
    /\ exited \in {"no", "close"}
    /\ exited' = "close"
    /\ session_closed' = close_session(managed_session, session_closed)
    /\ UNCHANGED <<env, cache, browser, auth, pc, op, arg, body, outcome, ret, counters,
                   ghost, dirty, fetchFailed, started, callers, budget, horizon, data,
                   managed_session>>

\* __aexit__, lines 33-35: the body of "async with client" ended, normally or with
\* an exception; either way close() is awaited, and the exception, if any, goes on
ExitContext ==
    /\ Idle
    /\ exited \in {"no", "close"}
    /\ \E path \in {"normal", "exception"} : exited' = path
    /\ session_closed' = close_session(managed_session, session_closed)
    /\ UNCHANGED <<env, cache, browser, auth, pc, op, arg, body, outcome, ret, counters,
                   ghost, dirty, fetchFailed, started, callers, budget, horizon, data,
                   managed_session>>

\* a client built on its own session or on one the caller supplied (lines 20-25),
\* used for a few operations and then let go of
InitClose ==
    /\ Constructed
    /\ NoData
    /\ callers = {1}
    /\ budget = CloseOps
    /\ horizon = CloseTime
    /\ managed_session \in BOOLEAN

NextClose == Next \/ Close \/ ExitContext

SpecClose == InitClose /\ [][NextClose]_vars

\* one caller, awaiting one operation after the other
Spec == Init /\ [][Next]_vars

\* the operations and minutes of the runs in which the awaited steps are fair
LiveOps == 2
LiveTime == 1

InitLive ==
    /\ Constructed
    /\ NoData
    /\ callers = {1}
    /\ budget = LiveOps
    /\ horizon = LiveTime
    /\ managed_session = TRUE

\* the step by which a login that is suspended at an await runs on: each awaited
\* browser call returns or raises (launch, goto and the selector waits time out
\* after the browser library's default, the wait for the dashboard after
\* LOGIN_TIMEOUT_MILLISECONDS), and so does the GET of the context
LoginStep(t) ==
    \/ LoginLaunch(t)
    \/ LoginForm(t)
    \/ LoginWait(t)
    \/ LoginCookies(t)
    \/ LoginClose(t)
    \/ FetchResponse(t)
    \/ FetchJson(t)
    \/ AuthLaunch(t)
    \/ AuthNavigate(t)
    \/ AuthFill(t)
    \/ AuthSubmit(t)
    \/ AuthWait(t)
    \/ AuthCookies(t)
    \/ AuthClose(t)

\* the event loop resumes a coroutine whose awaited call has ended
SpecLive == InitLive /\ [][Next]_vars /\ \A t \in Tasks : WF_vars(LoginStep(t))
\* NumTasks callers on one event loop
SpecConc == InitConc /\ [][Next]_vars

\* ------------------------------------------------------------------ claims

ClientOps == {"login", "list_devices", "get_device_state", "set_device_state"}
\* the operations that fetch the context (ensure_fresh_profile)
Reads == {"login", "list_devices", "get_device_state"}
IsError(oc) == oc.kind \notin {"ok", "none"}
Finished(t) == pc[t] = "done"
\* browser logins an operation ran beyond the one an explicit login is
Reauths(t) ==
    IF op[t] = "login"
    THEN (IF launched[t] > 0 THEN launched[t] - 1 ELSE 0)
    ELSE launched[t]
\* the context fetches whose request is out and whose answer is not yet consumed
InFlight == {t \in Tasks : pc[t] \in {"fetch_await", "fetch_json"}}

\* C1: a read whose first context fetch is answered 401 while credentials are
\* stored re-authenticates exactly once and sends exactly one more fetch (never a
\* third); a read that then succeeds has sent two fetches.
C1_RetriesOnceOn401 ==
    \A t \in Tasks :
        (Finished(t) /\ op[t] \in Reads /\ first[t] = 401 /\ credsAtFirst[t])
        => /\ Reauths(t) = 1
           /\ nfetch[t] <= 2
           /\ (outcome[t] = Ok => nfetch[t] = 2)

\* C2: a public operation never re-authenticates more than once nor sends more
\* than two context fetches, and when its latest context fetch failed the operation
\* ends with an error for the caller.
C2_AtMostOneRetry ==
    \A t \in Tasks :
        op[t] \in ClientOps
        => /\ Reauths(t) <= 1
           /\ nfetch[t] <= 2
           /\ (Finished(t) /\ fetchFailed[t] => IsError(outcome[t]))

\* C2 witness: an operation whose context fetch failed has ended with the error.
C2_Witness ==
    \E t \in Tasks :
        /\ Finished(t) /\ op[t] \in ClientOps
        /\ fetchFailed[t] /\ nfetch[t] = 1 /\ IsError(outcome[t])

\* C3: a context fetch answered 401 while no credentials are stored ends the read
\* at once with that error: one fetch, no login attempt, no browser launched by a
\* list_devices / get_device_state.
C3_NoCredentialsNoRetry ==
    \A t \in Tasks :
        (op[t] \in Reads /\ first[t] = 401 /\ ~credsAtFirst[t])
        => /\ Finished(t)
           /\ outcome[t] = Raised("ClientResponseError", 401)
           /\ nfetch[t] = 1
           /\ Reauths(t) = 0
           /\ (op[t] # "login" => launched[t] = 0)

\* C3 witness: a list_devices got 401 with no credentials stored and has ended.
C3_Witness ==
    \E t \in Tasks :
        /\ op[t] = "list_devices" /\ first[t] = 401 /\ ~credsAtFirst[t]
        /\ Finished(t) /\ IsError(outcome[t])

\* C4: is_session_expired holds of 401 alone, no re-authentication happens unless
\* the fetch was answered 401, and a context fetch answered with another error
\* status ends the read at once with that status: one fetch, no re-authentication.
C4_OnlyUnauthorizedTriggers ==
    /\ \A s \in Responses : is_session_expired(s) <=> s = 401
    /\ \A t \in Tasks :
        /\ (op[t] \in Reads /\ Reauths(t) > 0) => is_session_expired(first[t])
        /\ (op[t] \in Reads /\ first[t] \in Statuses \ {401} /\ first[t] >= 300)
           => /\ Finished(t)
              /\ outcome[t] = Raised("ClientResponseError", first[t])
              /\ nfetch[t] = 1
              /\ Reauths(t) = 0

\* C4 witness: with credentials stored, a read answered 403 has ended with the error.
C4_Witness ==
    \E t \in Tasks :
        /\ op[t] \in Reads /\ first[t] = 403 /\ credsAtFirst[t]
        /\ Finished(t) /\ outcome[t].status = 403

\* C5: the first read after a successful write on a client that holds a snapshot
\* sends a context fetch before it returns.
C5_ReadAfterWriteFetches ==
    \A t \in Tasks :
        (Finished(t) /\ op[t] \in {"list_devices", "get_device_state"} /\ invAtStart[t])
        => nfetch[t] >= 1

\* C6: a write that ends in an error has left the snapshot and its timestamp as
\* they were.
C6_FailedWriteLeavesCache ==
    \A t \in Tasks :
        (Finished(t) /\ op[t] = "set_device_state" /\ IsError(outcome[t]))
        => ~dirty[t]

\* C7: a write with an empty device type fails with Device-Not-Found, sends no
\* request and leaves the cache alone.
C7_EmptyTypeDeviceNotFound ==
    \A t \in Tasks :
        (Finished(t) /\ op[t] = "set_device_state" /\ arg[t].type = "")
        => /\ outcome[t].kind = "DeviceNotFound"
           /\ nput[t] = 0
           /\ nfetch[t] = 0
           /\ ~dirty[t]

\* C8: at most one context fetch is in flight per client at any time.
C8_SingleFlight == Cardinality(InFlight) <= 1

\* C9: a list_devices called while the cache is valid (snapshot stored, not
\* invalidated since, younger than the TTL) sends no fetch and answers from the
\* cached snapshot; after an earlier list_devices on the same snapshot it answers
\* the same devices.
C9_ValidCacheNoFetch ==
    \A t \in Tasks :
        (Finished(t) /\ op[t] = "list_devices" /\ validAtStart[t])
        => /\ nfetch[t] = 0
           /\ outcome[t] = Ok
           /\ ret[t] # None
           /\ ret[t] = user_profile
           /\ (lastAtStart[t] # None => ret[t] = lastAtStart[t])

\* C9 witness: the second of two reads within the TTL answered what the first
\* did, with one fetch in all.
C9_Witness ==
    \E t \in Tasks :
        /\ Finished(t) /\ op[t] = "list_devices" /\ validAtStart[t]
        /\ lastAtStart[t] # None /\ ret[t] = lastAtStart[t]
        /\ nfetch[t] = 0 /\ fetches = 1 /\ started = 2 /\ now > 0

\* C10: from an invalidation until the next store the cache is not valid.
C10_InvalidatedNotValid == invalidated => ~is_cache_valid

\* the step in which _fetch_context stores a profile (lines 92-93)
Stored(t) == pc[t] = "fetch_json" /\ pc'[t] # "fetch_json" /\ ~fetchFailed'[t]
\* the step in which set_device_state clears the timestamp (line 159)
Invalidates(t) == pc[t] = "put_await" /\ pc'[t] = "put_json"

\* C11: right after a profile is stored the cache holds the new snapshot, its age is
\* zero (below every ttl > 0), the invalidation is cleared and the cache is valid,
\* whatever happened before.
C11_SetMakesValid ==
    [][\A t \in Tasks :
        Stored(t) => /\ user_profile' = body[t]
                     /\ now' - last_updated' = 0
                     /\ ~invalidated'
                     /\ is_cache_valid']_vars

\* C11 witness: a login that started on an invalidated cache has stored the server's
\* current snapshot and the cache is valid again.
C11_Witness ==
    \E t \in Tasks :
        /\ Finished(t) /\ op[t] = "login" /\ outcome[t] = Ok /\ invAtStart[t]
        /\ user_profile = srv /\ last_updated = now
        /\ ~invalidated /\ is_cache_valid

\* C12: the invalidation of a successful write leaves the stored snapshot (and the
\* devices handed out from it) as it was: a cache that had a profile still has it.
C12_InvalidateKeepsSnapshot ==
    [][\A t \in Tasks :
        Invalidates(t) => /\ invalidated'
                          /\ user_profile' = user_profile
                          /\ tagged' = tagged
                          /\ lastList' = lastList]_vars

\* C12 witness: a write has just invalidated a cache that holds the snapshot a
\* list_devices answered from.
C12_Witness ==
    \E t \in Tasks :
        /\ pc[t] = "put_json" /\ invalidated
        /\ user_profile # None /\ user_profile = lastList

\* C13: a cache with no snapshot is not valid, a stored snapshot that was not
\* invalidated is valid iff its age is below the TTL (so not at an age equal to the
\* TTL), and the TTL is 5 minutes.
C13_ValidIffYoungerThanTtl ==
    /\ CACHE_MINUTES = 5
    /\ user_profile = None => ~is_cache_valid
    /\ (user_profile # None /\ ~invalidated /\ last_updated # None)
       => (is_cache_valid <=> now - last_updated < CACHE_MINUTES)

\* where the devices of building i start in the list (the devices before it)
RECURSIVE Offset(_, _)
Offset(buildings, i) ==
    IF i <= 1
    THEN 0
    ELSE Offset(buildings, i - 1)
         + Len(buildings[i - 1].air_to_air_units)
         + Len(buildings[i - 1].air_to_water_units)

\* C14: the list holds every device of every building exactly once: the buildings in
\* order, in each building the air-to-air units in their order tagged "ataunit",
\* then the air-to-water units in their order tagged "atwunit".
C14_ListOrderAndTags ==
    calls > 0 =>
        /\ Len(listed) = Offset(snapshot, Len(snapshot) + 1)
        /\ \A i \in 1..Len(snapshot) :
            /\ \A j \in 1..Len(snapshot[i].air_to_air_units) :
                listed[Offset(snapshot, i) + j] =
                    [id |-> snapshot[i].air_to_air_units[j].id, device_type |-> "ataunit"]
            /\ \A j \in 1..Len(snapshot[i].air_to_water_units) :
                listed[Offset(snapshot, i) + Len(snapshot[i].air_to_air_units) + j] =
                    [id |-> snapshot[i].air_to_water_units[j].id, device_type |-> "atwunit"]

\* C14 witness: two buildings, each with two units of one kind and one of the other,
\* have been listed.
C14_Witness ==
    /\ calls > 0
    /\ Len(snapshot) = 2
    /\ Len(snapshot[1].air_to_air_units) = 2 /\ Len(snapshot[1].air_to_water_units) = 1
    /\ Len(snapshot[2].air_to_air_units) = 1 /\ Len(snapshot[2].air_to_water_units) = 2
    /\ Len(listed) = 6
    /\ listed[3].device_type = "atwunit" /\ listed[4].device_type = "ataunit"

\* C15: every device of the cached snapshot keeps the device_type it was stored with
\* (unset), however often the devices were listed.
C15_ListingKeepsSnapshot ==
    \A i \in 1..Len(snapshot) :
        /\ \A j \in 1..Len(snapshot[i].air_to_air_units) :
            snapshot[i].air_to_air_units[j].device_type = NoneStr
        /\ \A j \in 1..Len(snapshot[i].air_to_water_units) :
            snapshot[i].air_to_water_units[j].device_type = NoneStr

\* the last position at which a name occurs in the settings list
LastIndex(n) ==
    CHOOSE i \in 1..Len(settings) :
        /\ settings[i].name = n
        /\ \A j \in (i + 1)..Len(settings) : settings[j].name # n

\* C16: the extracted state has exactly the names that occur in the settings list,
\* each with the value of its last occurrence.
C16_LastSettingWins ==
    extracted =>
        /\ DOMAIN device_state = {settings[i].name : i \in 1..Len(settings)}
        /\ \A n \in DOMAIN device_state : device_state[n] = settings[LastIndex(n)].value

\* C16 witness: a list that sets Power twice, to different values, was extracted.
C16_Witness ==
    /\ extracted
    /\ \E i, j \in 1..Len(settings) :
        /\ i < j
        /\ settings[i].name = "Power" /\ settings[j].name = "Power"
        /\ settings[i].value # settings[j].value
        /\ device_state["Power"] = settings[j].value

\* C17: a get_device_state for an id that no device of the profile has ends without
\* an error and returns None.
C17_UnknownDeviceIsAbsent ==
    \A t \in Tasks :
        (Finished(t) /\ op[t] = "get_device_state" /\ arg[t].id = UnknownId
         /\ user_profile # None /\ ~fetchFailed[t])
        => /\ ~IsError(outcome[t])
           /\ ret[t] = None

\* C18: a get_device_state that ended while no snapshot was ever stored ended with a
\* Login error, for every device id.
C18_NoSnapshotIsLoginError ==
    \A t \in Tasks :
        (Finished(t) /\ op[t] = "get_device_state" /\ user_profile = None)
        => outcome[t].kind = "LoginError"

\* C19 as stated: can_retry_login holds exactly in the states after a login call,
\* whatever email and password it passed.
C19_CanRetryIffLoginCalled == can_retry_login <=> login_args # NoCreds

\* C19 amended: can_retry_login is false on a new service and afterwards holds exactly
\* when the latest login call passed a non-empty email and a non-empty password,
\* from the moment of the call on (before the browser flow, and whether it succeeds
\* or fails).
C19_CanRetryIffNonEmptyStored ==
    can_retry_login <=>
        /\ login_args # NoCreds
        /\ login_args.email # ""
        /\ login_args.password # ""

\* C19 witness: a login with a non-empty email and password has failed and
\* can_retry_login holds.
C19_Witness ==
    \E t \in Tasks :
        /\ Finished(t) /\ op[t] = "auth_login" /\ IsError(outcome[t])
        /\ login_args.email # "" /\ login_args.password # ""
        /\ can_retry_login

\* the step in which a caller awaits retry_login
CallsRetry(t) == started' = started + 1 /\ op'[t] = "auth_retry_login"

\* C20: retry_login with no credentials stored fails at once with a Login error,
\* launches no browser and leaves the cookie jar alone; with credentials stored it
\* calls login with exactly the stored email and password.
C20_RetryNeedsCredentials ==
    [][\A t \in callers :
        CallsRetry(t) =>
            IF can_retry_login
            THEN /\ login_args' = [email |-> email, password |-> password]
                 /\ email' = email /\ password' = password
                 /\ pc'[t] = "a_launch"
            ELSE /\ pc'[t] = "done"
                 /\ outcome'[t] = Raised("LoginError", None)
                 /\ launched'[t] = 0
                 /\ browsers' = browsers
                 /\ cookie_jar' = cookie_jar
                 /\ UNCHANGED <<email, password, login_args>>]_vars

\* C20 witness: a retry_login with no credentials stored has ended with the Login
\* error and no browser launched.
C20_Witness ==
    \E t \in Tasks :
        /\ Finished(t) /\ op[t] = "auth_retry_login" /\ ~can_retry_login
        /\ outcome[t] = Raised("LoginError", None)
        /\ launched[t] = 0 /\ browsers = 0

\* the positions of a login at which a browser it launched is open
BrowserOpenPcs == AuthTryPcs \cup {"a_close"} \cup LoginOpenPcs
\* the positions of the browser part of a login
BrowserPcs == BrowserOpenPcs \cup {"a_launch", "l_launch"}

\* C21: every browser a login attempt launched is closed before the attempt leaves
\* its browser part, on every exit path (success, no dashboard, an exception in a
\* step, cancellation by the caller): the step by which a login leaves its browser
\* part leaves open none of the browsers the attempt launched, a browser.close()
\* that itself raised excepted.
C21_BrowserClosedOnEveryExit ==
    [][\A t \in Tasks :
          (/\ pc[t] \in BrowserPcs
           /\ pc'[t] \notin BrowserPcs
           /\ outcome'[t].kind # "CloseError")
          => browsers' = browsers - (IF pc[t] \in BrowserOpenPcs THEN 1 ELSE 0)]_vars

LoginOps == {"login", "auth_login", "auth_retry_login"}

\* C22: a login attempt whose wait for the dashboard ended with the page at a URL
\* outside the dashboard fails with a Login error whose message names that URL, and
\* a login attempt that is reported successful had its wait end on the dashboard
\* (a login cancelled by its caller, or one whose browser.close() raised, ends with
\* that exception instead).
C22_NoDashboardIsLoginError ==
    \A t \in Tasks :
        (Finished(t) /\ op[t] \in LoginOps) =>
            /\ (/\ reached[t] # NoneStr
                /\ ~on_dashboard(reached[t])
                /\ outcome[t].kind \notin {"CloseError", "CancelledError"})
               => (outcome[t].kind = "LoginError" /\ message[t] = reached[t])
            /\ outcome[t] = Ok => on_dashboard(reached[t])

\* the positions of the cookie list whose cookie has both a name and a value
WithNameAndValue ==
    {i \in 1..Len(browser_cookies) :
        browser_cookies[i].name # NoneStr /\ browser_cookies[i].value # NoneStr}
CookieKey(i) == <<browser_cookies[i].domain, browser_cookies[i].name>>

\* C23: the cookie transfer installs exactly the browser cookies that have both a
\* name and a value, with one update each, under the cookie's domain: afterwards the
\* jar holds, for every (domain, name) of such a cookie, the value of the last such
\* cookie of the list, every other entry is as it was, and a cookie with a missing
\* name or value is skipped without ending the transfer.
C23_TransferInstallsNamedValued ==
    [][(~transferred /\ transferred') =>
          /\ updates' = updates + Cardinality(WithNameAndValue)
          /\ DOMAIN jar' = DOMAIN jar \cup {CookieKey(i) : i \in WithNameAndValue}
          /\ \A k \in DOMAIN jar' :
               LET at == {i \in WithNameAndValue : CookieKey(i) = k}
               IN IF at = {}
                  THEN jar'[k] = jar[k]
                  ELSE \E i \in at : /\ \A j \in at : j <= i
                                     /\ jar'[k] = browser_cookies[i].value]_vars

\* a transfer of a list with a cookie lacking its value, a cookie lacking its name
\* and a cookie that was installed, into a jar that held a cookie
C23_Witness ==
    /\ transferred
    /\ updates = 1
    /\ jar # EmptyJar
    /\ \E i, j \in 1..Len(browser_cookies) :
        /\ browser_cookies[i].name # NoneStr /\ browser_cookies[i].value = NoneStr
        /\ browser_cookies[j].name = NoneStr

\* C24: close(), and leaving the client's async context normally or with an
\* exception, closes the HTTP session exactly when the client created the session
\* itself; a session supplied at construction is never closed by the client, and
\* the client closes no session before it is let go of.
C24_ClosesOnlyOwnSession ==
    /\ exited # "no" => (session_closed <=> managed_session)
    /\ ~managed_session => ~session_closed
    /\ exited = "no" => ~session_closed

\* the context of a client built on a supplied session was left with an exception,
\* after an operation failed, and the session is open
C24_Witness ==
    /\ exited = "exception"
    /\ ~managed_session
    /\ ~session_closed
    /\ \E t \in Tasks : Finished(t) /\ IsError(outcome[t])

\* the statuses that are not in [200, 300)
Non2xx == {s \in Statuses : s < 200 \/ s >= 300}

\* C25: every response with a status outside 2xx to a request of a public
\* operation ends the operation with an API error that carries that status; no
\* such response is followed by a normal return or by further work of the
\* operation (a 401, which may start a re-authentication, aside).
C25_Non2xxIsApiError ==
    \A t \in Tasks :
        (op[t] \in ClientOps /\ answer[t] \in Non2xx \ {401})
            => (Finished(t) /\ outcome[t] = Raised("ApiError", answer[t]))

\* C26: a request that fails at the transport level (no response: connection
\* error, timeout) ends the operation with the API error kind of an HTTP error,
\* with the status unset, and starts no re-authentication.
C26_TransportFailureIsApiError ==
    \A t \in Tasks :
        (op[t] \in ClientOps /\ answer[t] = NoStatus)
            => /\ Finished(t)
               /\ outcome[t] = Raised("ApiError", None)
               /\ Reauths(t) = 0

\* C27: the headers sent with a request are the default headers overridden by the
\* caller's: every default header the caller did not name is sent with its default
\* value, every caller header is sent with the caller's value (so the caller wins
\* on a name both have), and nothing else is sent.
C27_CallerHeadersOverrideDefaults ==
    requested =>
        /\ DOMAIN sent_headers = DOMAIN DEFAULT_HEADERS \cup DOMAIN caller_headers
        /\ \A n \in DOMAIN DEFAULT_HEADERS \ DOMAIN caller_headers :
             sent_headers[n] = DEFAULT_HEADERS[n]
        /\ \A n \in DOMAIN caller_headers : sent_headers[n] = caller_headers[n]

\* a request whose caller overrode x-csrf, added Authorization and left user-agent
\* alone
C27_Witness ==
    /\ requested
    /\ DOMAIN caller_headers = {"x-csrf", "Authorization"}
    /\ caller_headers["x-csrf"] = "0"
    /\ sent_headers["x-csrf"] = "0"
    /\ sent_headers["user-agent"] = DEFAULT_USER_AGENT

\* C28: staleness bound: the snapshot a list_devices call answers from was fetched
\* less than the TTL before the call returns and after the last successful write
\* that completed before the call started.  A call that fetches answers from what
\* it fetched; so a call that returns without fetching does so only on a snapshot
\* that carries a timestamp younger than the TTL and that no successful write
\* followed.
C28_StalenessBound ==
    [][\A t \in Tasks :
          (/\ pc[t] \in {"idle", "done"}
           /\ started' = started + 1
           /\ op'[t] = "list_devices"
           /\ pc'[t] = "done")
          => (/\ last_updated # None
              /\ now - last_updated < CACHE_MINUTES
              /\ ~writeOk)]_vars

\* C29: interleaving of a read and a write: when a write has completed successfully
\* while a context fetch sent earlier was still in flight, the completion of that
\* fetch does not leave the cache valid with the data read before the write; and a
\* read that starts after the write completed sends its own fetch.
C29_NoStaleStoreAfterWrite ==
    [][\A t \in Tasks :
          /\ (/\ pc[t] = "fetch_json"
              /\ writeOk
              /\ body[t] # srv
              /\ \A u \in Tasks : pc[u] # "put_json"
              /\ user_profile' = body[t]
              /\ last_updated' = now)
             => needs_fetch(user_profile', last_updated', now')
          /\ (/\ pc[t] \in {"idle", "done"}
              /\ writeOk
              /\ started' = started + 1
              /\ op'[t] \in {"list_devices", "get_device_state"})
             => nfetch'[t] = 1]_vars

\* the place of a step of _perform_browser_login in the order of lines 92-99
StepRank(p) ==
    CASE p = "a_nav" -> 1
      [] p = "a_fill" -> 2
      [] p = "a_submit" -> 3
      [] p = "a_wait" -> 4
      [] p = "a_cookies" -> 5

\* C30: a login attempt moves through its steps only in the order navigate, fill
\* form, submit, wait for dashboard, transfer cookies; the session's cookie store
\* is written only by the transfer step of an attempt whose wait ended on the
\* dashboard; and an attempt that fails (or is cancelled) in any of these steps
\* goes to the teardown with the cookie store as it was before the attempt.
C30_StepsInOrderCookiesLast ==
    [][\A t \in Tasks :
          /\ (pc'[t] \in AuthTryPcs /\ pc'[t] # pc[t])
             => \/ pc[t] = "a_launch" /\ pc'[t] = "a_nav"
                \/ pc[t] \in AuthTryPcs /\ StepRank(pc'[t]) = StepRank(pc[t]) + 1
          /\ (op[t] \in LoginOps /\ pc[t] \in BrowserPcs /\ cookie_jar' # cookie_jar)
             => (pc[t] \in {"a_cookies", "l_cookies"} /\ on_dashboard(reached[t]))
          /\ (pc[t] \in AuthTryPcs /\ pc'[t] = "a_close" /\ IsError(outcome'[t]))
             => cookie_jar' = jarAtStart[t]]_vars

\* a login that failed at its wait, after an earlier login had installed a cookie:
\* the cookie store is as it was when the failed attempt started
C30_Witness ==
    \E t \in Tasks :
        /\ Finished(t)
        /\ op[t] = "auth_login"
        /\ outcome[t].kind = "LoginError"
        /\ reached[t] # NoneStr
        /\ cookie_jar # {}
        /\ cookie_jar = jarAtStart[t]

\* a caller starts the operation name in this step
Starts(t, name) ==
    /\ pc[t] \in {"idle", "done"}
    /\ started' = started + 1
    /\ op'[t] = name

\* C31: the stored credentials change only in the step that calls login(email,
\* secret), which overwrites them with its arguments before the browser is
\* launched, whatever the outcome of the login; retry_login and every other step
\* leave them unchanged, and the login retry_login starts is called with the stored
\* credentials, those of the most recent login call.
C31_CredentialsChangeOnlyInLogin ==
    [][/\ (<<email, password>>' # <<email, password>>)
          => \E t \in Tasks : Starts(t, "auth_login")
       /\ \A t \in Tasks :
            /\ Starts(t, "auth_login")
               => /\ email' = login_args'.email
                  /\ password' = login_args'.password
                  /\ pc'[t] = "a_launch"
                  /\ browsers' = browsers
            /\ (Starts(t, "auth_retry_login") /\ pc'[t] = "a_launch")
               => /\ <<email, password>>' = <<email, password>>
                  /\ login_args' = [email |-> email, password |-> password]]_vars

\* a login that stored its credentials and installed no cookie, followed by a read
C31_Witness ==
    \E t \in Tasks :
        /\ Finished(t)
        /\ op[t] = "list_devices"
        /\ email = "a@x"
        /\ password = "pw"
        /\ login_args = [email |-> "a@x", password |-> "pw"]
        /\ cookie_jar = {}

\* C32: when the re-authentication started by a 401 on a context fetch fails, the
\* Login error reaches the caller of the read, no retried fetch is sent, and the
\* snapshot and its timestamp are as they were: a read whose first fetch was
\* answered 401 with credentials stored and that ended in an error without a second
\* fetch ended with the Login error of the re-authentication, the cache untouched.
C32_FailedReauthIsLoginError ==
    \A t \in Tasks :
        (/\ Finished(t)
         /\ op[t] \in {"list_devices", "get_device_state"}
         /\ first[t] = 401
         /\ credsAtFirst[t]
         /\ IsError(outcome[t])
         /\ nfetch[t] = 1)
        => /\ Reauths(t) = 1
           /\ outcome[t].kind = "LoginError"
           /\ ~dirty[t]

\* C33: a write whose PUT is answered 401 fails with an API error with status 401,
\* starts no re-authentication, has sent the PUT once and has not invalidated the
\* cache.
C33_WriteUnauthorizedNotRetried ==
    \A t \in Tasks :
        (op[t] = "set_device_state" /\ answer[t] = 401)
        => /\ Finished(t)
           /\ outcome[t] = Raised("ApiError", 401)
           /\ Reauths(t) = 0
           /\ nput[t] = 1
           /\ ~dirty[t]

\* the step in which a context fetch fails: the request, a non-2xx status, or the
\* decoding and validation of the body raised
FetchFails(t) ==
    /\ pc[t] \in {"fetch_await", "fetch_json"}
    /\ pc'[t] = "done"
    /\ fetchFailed'[t]

\* C34: a context fetch that fails (non-2xx status, transport failure, a body that
\* does not validate) leaves the cache unchanged: the snapshot, its timestamp and
\* its validity are the same after the failing step as before it, and a cache that
\* was empty is still empty.
C34_FailedFetchLeavesCache ==
    [][\A t \in Tasks :
         FetchFails(t)
         => /\ user_profile' = user_profile
            /\ last_updated' = last_updated
            /\ invalidated' = invalidated
            /\ is_cache_valid' = is_cache_valid
            /\ IsError(outcome'[t])]_vars

\* a fetch whose body did not validate has ended while a snapshot and its timestamp
\* are cached
C34_Witness ==
    \E t \in Tasks :
        /\ Finished(t) /\ fetchFailed[t]
        /\ outcome[t].kind = "DecodeError"
        /\ user_profile # None /\ last_updated # None

\* C35: the snapshot and its timestamp are replaced together: a step that changes
\* the snapshot is the store of a fetch and sets the timestamp to the time of that
\* step, a step that sets the timestamp stores the snapshot of the same fetch, and
\* in every state a set timestamp comes with a stored snapshot.
C35_SnapshotAndTimestampTogether ==
    [][/\ (user_profile' # user_profile)
          => /\ last_updated' = now'
             /\ \E t \in Tasks : Stored(t) /\ user_profile' = body[t]
       /\ (last_updated' # last_updated /\ last_updated' # None)
          => /\ last_updated' = now'
             /\ \E t \in Tasks : Stored(t) /\ user_profile' = body[t]
       /\ (last_updated' # None => user_profile' # None)]_vars

\* a second store, by another caller, has replaced a snapshot and its timestamp
C35_Witness ==
    \E t \in Tasks, u \in Tasks :
        /\ t # u
        /\ Finished(t) /\ dirty[t]
        /\ Finished(u) /\ dirty[u]
        /\ user_profile # None /\ last_updated = now /\ now > 0

====
